---- MODULE Spec2Model ----
(***************************************************************************)
(* Tucano::Trackball (src/libs/Tucano/Trackball.hpp): the trackball        *)
(* controller that turns pointer positions into a camera transform.        *)
(*                                                                         *)
(* Numbers.  The code computes in float.  The model computes in exact      *)
(* arithmetic: a float is a rational <<n, d>> in lowest terms (d > 0), and *)
(* a square root is taken exactly (Sqrt is defined on squares of rationals *)
(* only, and TLC stops with an error on any other argument, so every run   *)
(* that completes has computed every value exactly).  A quaternion's four  *)
(* coefficients share one irrational factor (cos and sin of a half angle), *)
(* so a quaternion is kept as [v |-> <<w,x,y,z>>, s |-> r], standing for   *)
(* the coefficients v / sqrt(r), with v a primitive integer vector.        *)
(* An angle in [0, pi] is kept as its cosine.                              *)
(***************************************************************************)
EXTENDS Integers, Sequences, FiniteSets, TLC

\* ------------------------------------------------------------ rationals

Abs(x) == IF x < 0 THEN -x ELSE x

RECURSIVE Gcd(_, _)
Gcd(a, b) == IF b = 0 THEN a ELSE Gcd(b, a % b)

\* The rational n/d (d # 0) in lowest terms with a positive denominator.
Rat(n, d) ==
    LET g == Gcd(Abs(n), Abs(d))
        sg == IF d < 0 THEN -1 ELSE 1
    IN  <<(sg * n) \div g, (sg * d) \div g>>

RInt(k) == <<k, 1>>
\* The sum and the product reduce before they multiply, to keep the
\* intermediate integers small.
RAdd(a, b) ==
    LET g == Gcd(a[2], b[2])
    IN  Rat(a[1] * (b[2] \div g) + b[1] * (a[2] \div g), (a[2] \div g) * b[2])
RNeg(a) == <<-a[1], a[2]>>
RSub(a, b) == RAdd(a, RNeg(b))
RMul(a, b) ==
    LET g1 == Gcd(Abs(a[1]), b[2])
        g2 == Gcd(Abs(b[1]), a[2])
    IN  IF g1 = 0 \/ g2 = 0 THEN Rat(a[1] * b[1], a[2] * b[2])
        ELSE <<(a[1] \div g1) * (b[1] \div g2), (a[2] \div g2) * (b[2] \div g1)>>
RDiv(a, b) == IF b[1] < 0 THEN RMul(a, <<-b[2], -b[1]>>) ELSE RMul(a, <<b[2], b[1]>>)
RLe(a, b) == a[1] * b[2] <= b[1] * a[2]
RLt(a, b) == a[1] * b[2] < b[1] * a[2]

\* floor(sqrt(k)) for k >= 0, by bisection on lo*lo <= k < hi*hi.
RECURSIVE SqrtBetween(_, _, _)
SqrtBetween(k, lo, hi) ==
    IF hi - lo <= 1 THEN lo
    ELSE LET mid == (lo + hi) \div 2
         IN  IF mid * mid <= k THEN SqrtBetween(k, mid, hi)
             ELSE SqrtBetween(k, lo, mid)

\* The exact integer square root: defined on perfect squares only.
ISqrt(k) == CHOOSE r \in {SqrtBetween(k, 0, k + 1)} : r * r = k

\* std::sqrt on a rational that is the square of a rational.
Sqrt(a) == <<ISqrt(a[1]), ISqrt(a[2])>>

\* ------------------------------------------------- Eigen vectors (float)

\* Eigen::Vector3f / Vector2f: tuples of three or two rationals.
VAdd(a, b) ==
    IF Len(a) = 2 THEN <<RAdd(a[1], b[1]), RAdd(a[2], b[2])>>
    ELSE <<RAdd(a[1], b[1]), RAdd(a[2], b[2]), RAdd(a[3], b[3])>>
VSub(a, b) ==
    IF Len(a) = 2 THEN <<RSub(a[1], b[1]), RSub(a[2], b[2])>>
    ELSE <<RSub(a[1], b[1]), RSub(a[2], b[2]), RSub(a[3], b[3])>>
VScale(k, a) ==
    IF Len(a) = 2 THEN <<RMul(k, a[1]), RMul(k, a[2])>>
    ELSE <<RMul(k, a[1]), RMul(k, a[2]), RMul(k, a[3])>>
VDot(a, b) == RAdd(RAdd(RMul(a[1], b[1]), RMul(a[2], b[2])), RMul(a[3], b[3]))
VCross(a, b) ==
    <<RSub(RMul(a[2], b[3]), RMul(a[3], b[2])),
      RSub(RMul(a[3], b[1]), RMul(a[1], b[3])),
      RSub(RMul(a[1], b[2]), RMul(a[2], b[1]))>>
VNorm(a) == Sqrt(VDot(a, a))
Head2(a) == <<a[1], a[2]>>

\* Vector3f::normalize() as the code guards it: if (v.norm() > 0) v.normalize().
NormalizeIfNonZero(a) ==
    IF RLt(RInt(0), VDot(a, a)) THEN VScale(RDiv(RInt(1), VNorm(a)), a) ELSE a

\* -------------------------------------------- Eigen::Quaternion<float>

Lcm(a, b) == (a * b) \div Gcd(a, b)

\* The quaternion with coefficients rv / sqrt(s), rv four rationals, s > 0:
\* brought to the form [v, s] with v a primitive integer vector.
QRay(rv, s) ==
    LET L == Lcm(Lcm(rv[1][2], rv[2][2]), Lcm(rv[3][2], rv[4][2]))
        iv == <<(rv[1][1] * L) \div rv[1][2], (rv[2][1] * L) \div rv[2][2],
                (rv[3][1] * L) \div rv[3][2], (rv[4][1] * L) \div rv[4][2]>>
        g == Gcd(Gcd(Abs(iv[1]), Abs(iv[2])), Gcd(Abs(iv[3]), Abs(iv[4])))
    IN  IF g = 0 THEN [v |-> <<0, 0, 0, 0>>, s |-> RInt(1)]
        ELSE [v |-> <<iv[1] \div g, iv[2] \div g, iv[3] \div g, iv[4] \div g>>,
              s |-> RDiv(RMul(s, RInt(L * L)), RInt(g * g))]

QInt(v) == <<RInt(v[1]), RInt(v[2]), RInt(v[3]), RInt(v[4])>>

\* Quaternion::Identity().
QIdentity == [v |-> <<1, 0, 0, 0>>, s |-> RInt(1)]

\* v.v of the integer vector, and Quaternion::squaredNorm().
QLen2(q) == q.v[1] * q.v[1] + q.v[2] * q.v[2] + q.v[3] * q.v[3] + q.v[4] * q.v[4]
QSquaredNorm(q) == RDiv(RInt(QLen2(q)), q.s)

\* Quaternion operator* (the Hamilton product).
QMul(a, b) ==
    LET p == a.v
        r == b.v
    IN  QRay(QInt(<<p[1] * r[1] - p[2] * r[2] - p[3] * r[3] - p[4] * r[4],
                    p[1] * r[2] + p[2] * r[1] + p[3] * r[4] - p[4] * r[3],
                    p[1] * r[3] - p[2] * r[4] + p[3] * r[1] + p[4] * r[2],
                    p[1] * r[4] + p[2] * r[3] - p[3] * r[2] + p[4] * r[1]>>),
             RMul(a.s, b.s))

\* A normalize() that divides by the norm of the vector part alone.
QNormalizeVec(q) ==
    LET n == q.v[2] * q.v[2] + q.v[3] * q.v[3] + q.v[4] * q.v[4]
    IN  IF n = 0 THEN q ELSE [v |-> q.v, s |-> RInt(n)]

\* Quaternion::normalize(): the coefficients divided by their norm (left
\* alone when the norm is 0).
QNormalize(q) ==
    IF QLen2(q) = 0 THEN q ELSE QRay(QInt(q.v), RInt(QLen2(q)))

\* Quaternion::inverse(): the conjugate divided by the squared norm (zero
\* when the squared norm is 0).  (c/|q|^2) / sqrt(s) = c / sqrt(|v|^4 / s).
QInverse(q) ==
    IF QLen2(q) = 0 THEN q
    ELSE QRay(QInt(<<q.v[1], -q.v[2], -q.v[3], -q.v[4]>>),
              RMul(RDiv(RInt(QLen2(q)), q.s), RInt(QLen2(q))))

\* Quaternion * Vector3f (Eigen's _transformVector):
\*   uv = 2 * q.vec x v;  result = v + q.w * uv + q.vec x uv.
\* Each product of two coefficients carries the factor 1/s, so the result
\* is rational.
QTransformVector(q, a) ==
    LET qv == <<RInt(q.v[2]), RInt(q.v[3]), RInt(q.v[4])>>
        uv == VScale(RInt(2), VCross(qv, a))
    IN  VAdd(a, VScale(RDiv(RInt(1), q.s),
                       VAdd(VScale(RInt(q.v[1]), uv), VCross(qv, uv))))

\* Quaternion(AngleAxis(acos(c), axis)) = (cos(t/2), sin(t/2) * axis) with
\* cos(t/2) = sqrt((1+c)/2) and sin(t/2) = sqrt((1-c)/2).  The axis is the
\* direction of the rational vector ax, made a unit vector when its norm is
\* not 0 (rotationAxis.normalize()), so sin(t/2) * axis =
\* sqrt((1-c)/2) / |ax| * ax; multiplying all four coefficients by
\* sqrt(2(1+c)) gives (1+c, sqrt((1-c^2)/|ax|^2) * ax).
AngleAxisQuaternion(c, ax) ==
    LET n2 == VDot(ax, ax)
        one == RInt(1)
    IN  IF n2 = RInt(0)
        THEN IF c = RInt(-1) THEN QRay(QInt(<<0, 0, 0, 0>>), one)
             ELSE QRay(QInt(<<1, 0, 0, 0>>), RDiv(RInt(2), RAdd(one, c)))
        ELSE IF c = RInt(-1)
             THEN QRay(<<RInt(0), ax[1], ax[2], ax[3]>>, n2)
             ELSE LET k == Sqrt(RDiv(RSub(one, RMul(c, c)), n2))
                  IN  QRay(<<RAdd(one, c), RMul(k, ax[1]), RMul(k, ax[2]),
                             RMul(k, ax[3])>>,
                           RMul(RInt(2), RAdd(one, c)))

\* Quaternion(Matrix3f) (Eigen's rotation-matrix to quaternion conversion).
\* With t = trace:  t > 0:  w = sqrt(t+1)/2, vec = (m32-m23, m13-m31,
\* m21-m12) / (2 sqrt(t+1));  otherwise, with i the largest diagonal entry
\* and D = m_ii - m_jj - m_kk + 1:  q_i = sqrt(D)/2, w = (m_kj-m_jk) /
\* (2 sqrt(D)), q_j = (m_ji+m_ij) / (2 sqrt(D)), q_k = (m_ki+m_ik) /
\* (2 sqrt(D)).  m is a tuple of three rows.
QFromMatrix(m) ==
    LET t == RAdd(RAdd(m[1][1], m[2][2]), m[3][3])
    IN  IF RLt(RInt(0), t)
        THEN QRay(<<RAdd(t, RInt(1)), RSub(m[3][2], m[2][3]),
                    RSub(m[1][3], m[3][1]), RSub(m[2][1], m[1][2])>>,
                  RMul(RInt(4), RAdd(t, RInt(1))))
        ELSE LET i0 == IF RLt(m[1][1], m[2][2]) THEN 2 ELSE 1
                 i == IF RLt(m[i0][i0], m[3][3]) THEN 3 ELSE i0
                 j == (i % 3) + 1
                 k == (j % 3) + 1
                 D == RAdd(RSub(RSub(m[i][i], m[j][j]), m[k][k]), RInt(1))
                 c == [n \in 1..3 |->
                         IF n = i THEN D
                         ELSE IF n = j THEN RAdd(m[j][i], m[i][j])
                         ELSE RAdd(m[k][i], m[i][k])]
             IN  QRay(<<RSub(m[k][j], m[j][k]), c[1], c[2], c[3]>>,
                      RMul(RInt(4), D))

\* Quaternion::toRotationMatrix(), as Eigen computes it from the
\* coefficient products (each carries the factor 1/s).
QToRotationMatrix(q) ==
    LET P(a, b) == RDiv(RInt(2 * q.v[a] * q.v[b]), q.s)
        one == RInt(1)
    IN  <<<<RSub(one, RAdd(P(3, 3), P(4, 4))), RSub(P(2, 3), P(1, 4)),
            RAdd(P(2, 4), P(1, 3))>>,
          <<RAdd(P(2, 3), P(1, 4)), RSub(one, RAdd(P(2, 2), P(4, 4))),
            RSub(P(3, 4), P(1, 2))>>,
          <<RSub(P(2, 4), P(1, 3)), RAdd(P(3, 4), P(1, 2)),
            RSub(one, RAdd(P(2, 2), P(3, 3)))>>>>

\* ------------------------------------------------------- the camera base
\* Tucano::Camera (Camera.hpp) holds the view matrix and the viewport.  The
\* view matrix is an affine transform [lin |-> 3x3 rows, tr |-> vector].

MatVec(m, a) == <<VDot(m[1], a), VDot(m[2], a), VDot(m[3], a)>>
MatCol(m, j) == <<m[1][j], m[2][j], m[3][j]>>
MatRow(r, b) ==
    <<VDot(r, MatCol(b, 1)), VDot(r, MatCol(b, 2)), VDot(r, MatCol(b, 3))>>
MatMul(a, b) == <<MatRow(a[1], b), MatRow(a[2], b), MatRow(a[3], b)>>
Identity3 ==
    <<<<RInt(1), RInt(0), RInt(0)>>, <<RInt(0), RInt(1), RInt(0)>>,
      <<RInt(0), RInt(0), RInt(1)>>>>
Zero3 == <<RInt(0), RInt(0), RInt(0)>>

\* Camera::resetViewMatrix(): the identity.
resetViewMatrix == [lin |-> Identity3, tr |-> Zero3]

\* Camera::rotate / translate / scale: each left-multiplies the maintained
\* matrix by the rotation, translation or uniform scale.
rotate(M, q) ==
    LET R == QToRotationMatrix(q)
    IN  [lin |-> MatMul(R, M.lin), tr |-> MatVec(R, M.tr)]
translate(M, t) == [lin |-> M.lin, tr |-> VAdd(M.tr, t)]
scale(M, z) ==
    [lin |-> <<VScale(z, M.lin[1]), VScale(z, M.lin[2]), VScale(z, M.lin[3])>>,
     tr |-> VScale(z, M.tr)]

\* ------------------------------------------------------------ the state

VARIABLES
    zoom,                        \* float zoom
    rotating,                    \* bool rotating
    translating,                 \* bool translating
    trackballProjectionMatrix,   \* Eigen::Matrix4f trackballProjectionMatrix
    initialPosition,             \* Eigen::Vector3f initialPosition
    finalPosition,               \* Eigen::Vector3f finalPosition
    initialTranslationPosition,  \* Eigen::Vector2f initialTranslationPosition
    finalTranslationPosition,    \* Eigen::Vector2f finalTranslationPosition
    quaternion,                  \* Eigen::Quaternion<float> quaternion
    default_quaternion,          \* Eigen::Quaternion<float> default_quaternion
    translationVector,           \* Eigen::Vector3f translationVector
    defaultTranslation,          \* Eigen::Vector3f defaultTranslation
    radius,                      \* float radius
    viewMatrix,                  \* Camera::viewMatrix
    viewport,                    \* Camera::viewport
    last,                        \* the call made last
    before,                      \* what that call found: zoom, view matrix, flag
    gesture,                     \* the translation gesture under way
    calls                        \* the number of calls made so far

vars ==
    <<zoom, rotating, translating, trackballProjectionMatrix, initialPosition,
      finalPosition, initialTranslationPosition, finalTranslationPosition,
      quaternion, default_quaternion, translationVector, defaultTranslation,
      radius, viewMatrix, viewport, last, before, gesture, calls>>

\* The fields of the controller (everything but the record of the calls).
fields ==
    <<zoom, rotating, translating, trackballProjectionMatrix, initialPosition,
      finalPosition, initialTranslationPosition, finalTranslationPosition,
      quaternion, default_quaternion, translationVector, defaultTranslation,
      radius, viewMatrix, viewport>>

\* ------------------------------------------------------------ the bounds

\* The number of calls in a run.
MaxCalls == 4

\* The number of accessor calls in a run of accessor calls.
MaxReads == 5

\* The number of applications in a run of applications of the projections.
MaxApplications == 2

\* The viewport (x0, y0, x1, y1) the camera is given.
Viewport == <<RInt(0), RInt(0), RInt(800), RInt(600)>>

\* Pointer positions, in screen units.
Centre == <<RInt(400), RInt(300)>>
Right == <<RInt(592), RInt(300)>>
Up == <<RInt(400), RInt(156)>>
TopLeft == <<RInt(0), RInt(0)>>

\* The positions of rotation gestures lie under the sphere, where the
\* surface points have rational coordinates and a rational norm.
RotationPositions == {Centre, Right, Up}
TranslationPositions == {Right, TopLeft}

\* The constructor leaves the four position members uninitialized.
\* initialPosition is read before it is first assigned (by translateCamera),
\* so it starts with any of these values; the other three are assigned
\* before they are read, and one value stands for what they hold until then.
Uninitialized3 == {Zero3, <<RInt(400), RInt(300), RInt(1)>>}
Unread3 == {Zero3}
Unread2 == {<<RInt(0), RInt(0)>>}

\* The viewports of the projections: the one of the gestures and one whose
\* origin is not (0, 0).
Viewports == {Viewport, <<RInt(100), RInt(50), RInt(900), RInt(650)>>}

\* The screen positions of a viewport the projections are applied to: its
\* corners, its centre and the grid between them.
ScreenSteps == 4
ScreenPoints(vp) ==
    {<<RAdd(vp[1], RMul(Rat(i, ScreenSteps), RSub(vp[3], vp[1]))),
       RAdd(vp[2], RMul(Rat(j, ScreenSteps), RSub(vp[4], vp[2])))>> :
         i \in 0..ScreenSteps, j \in 0..ScreenSteps}

\* The normalized positions computeSpherePosition is applied to: a grid of
\* fifths that reaches past [-1, 1]^2 and holds points on the intersection
\* of the two surfaces, such as (2/5, 2/5).
MaxGrid == 6
NormalizedPoints ==
    {<<Rat(i, 5), Rat(j, 5)>> : i \in -MaxGrid..MaxGrid,
                                 j \in -MaxGrid..MaxGrid}

ProjectionMatrices == {"Perspective"}

ZoomFactors == {RInt(2)}
ZoomValues == {RInt(3), RInt(0)}
Translations == {<<RInt(1), RInt(0), RInt(0)>>}
DefaultTranslations == {<<RInt(0), RInt(0), RInt(-2)>>}

\* A quarter turn about the z axis, as a rotation matrix.
RotZ90 ==
    <<<<RInt(0), RInt(-1), RInt(0)>>, <<RInt(1), RInt(0), RInt(0)>>,
      <<RInt(0), RInt(0), RInt(1)>>>>
Rotations == {RotZ90}

\* -------------------------------------------------- the pure operations

\* Trackball::normalizePosition.
normalizePosition(pos, vp) ==
    <<RSub(RDiv(pos[1], RDiv(RSub(vp[3], vp[1]), RInt(2))), RInt(1)),
      RSub(RInt(1), RDiv(pos[2], RDiv(RSub(vp[4], vp[2]), RInt(2))))>>

\* Trackball::computeSpherePosition.
computeSpherePosition(p, r) ==
    LET d2 == RAdd(RMul(p[1], p[1]), RMul(p[2], p[2]))
        z == IF RLe(d2, RDiv(RMul(r, r), RInt(2)))
             THEN Sqrt(RSub(RMul(r, r), d2))
             ELSE RDiv(RMul(r, r), RMul(RInt(2), Sqrt(d2)))
    IN  <<p[1], p[2], z>>

\* Trackball::computeSpherePosition, its squared distance from the centre:
\* p[0]*p[0] + p[1]*p[1].
SquaredDistance(p) == RAdd(RMul(p[1], p[1]), RMul(p[2], p[2]))

\* A condition that takes the sphere up to its rim: x*x + y*y <= r*r.
UnderWholeSphere(p, r) == RLe(SquaredDistance(p), RMul(r, r))

\* A condition that takes the sphere outside the intersection and the
\* hyperbolic sheet inside it.
OverSphere(p, r) ==
    RLe(RDiv(RMul(r, r), RInt(2)), SquaredDistance(p))

\* Trackball::computeSpherePosition, its condition: the point lies before
\* the intersection of the two surfaces, x*x + y*y <= (r*r)/2.
UnderSphere(p, r) ==
    RLe(SquaredDistance(p), RDiv(RMul(r, r), RInt(2)))

\* What std::sqrt returns for a negative number and what a division of a
\* positive number by zero returns; neither is a rational.
NaN == <<0, 0>>
Infinity == <<1, 0>>

\* The heights of the two surfaces are square roots, irrational for most
\* points.  A height is the non-negative root of its square, so the two
\* operators below keep the square of the height the code computes.

\* z = std::sqrt(r*r - x*x - y*y), squared.
SphereHeightSquared(p, r) ==
    LET s == RSub(RMul(r, r), SquaredDistance(p))
    IN  IF RLt(s, RInt(0)) THEN NaN ELSE s

\* A sheet without the factor 2 of the divisor: z = (r*r)/sqrt(x*x + y*y),
\* squared.
HyperbolaHeightSquaredNoHalf(p, r) ==
    IF SquaredDistance(p) = RInt(0) THEN Infinity
    ELSE RDiv(RMul(RMul(r, r), RMul(r, r)), SquaredDistance(p))

\* z = (r*r)/(2*std::sqrt(x*x + y*y)), squared.
HyperbolaHeightSquared(p, r) ==
    IF SquaredDistance(p) = RInt(0) THEN Infinity
    ELSE RDiv(RMul(RMul(r, r), RMul(r, r)),
              RMul(RInt(4), SquaredDistance(p)))

\* Trackball::computeSpherePosition with the height squared: (x, y, z*z).
computeSpherePositionSquared(p, r) ==
    <<p[1], p[2], IF UnderSphere(p, r) THEN SphereHeightSquared(p, r)
                  ELSE HyperbolaHeightSquared(p, r)>>

\* An updateViewMatrix that applies the translation t before the rotation q.
updateViewMatrixTranslateFirst(dq, dt, q, t, z) ==
    scale(rotate(translate(translate(rotate(resetViewMatrix, dq), dt), t), q), z)

\* Trackball::updateViewMatrix, on the values it reads.
updateViewMatrix(dq, dt, q, t, z) ==
    scale(translate(rotate(translate(rotate(resetViewMatrix, dq), dt), q), t), z)

\* A computeRotationAngle that composes the increment on the right.
computeRotationAngleRight(initial, final, q) ==
    LET a == NormalizeIfNonZero(initial)
        b == NormalizeIfNonZero(final)
        dot == VDot(a, b)
        cosAngle == IF RLe(dot, RInt(1)) THEN dot ELSE RInt(1)
        dq == AngleAxisQuaternion(cosAngle, VCross(a, b))
    IN  [initialPosition |-> a, finalPosition |-> b,
         quaternion |-> QNormalize(QMul(q, dq))]

\* Trackball::computeRotationAngle on (initialPosition, finalPosition,
\* quaternion): the three members as it leaves them.
computeRotationAngle(initial, final, q) ==
    LET a == NormalizeIfNonZero(initial)
        b == NormalizeIfNonZero(final)
        rotationAxis == VCross(a, b)
        dot == VDot(a, b)
        \* rotationAngle = (dot <= 1) ? acos(dot) : 0, as its cosine
        cosAngle == IF RLe(dot, RInt(1)) THEN dot ELSE RInt(1)
        dq == AngleAxisQuaternion(cosAngle, rotationAxis)
    IN  [initialPosition |-> a, finalPosition |-> b,
         quaternion |-> QNormalize(QMul(dq, q))]

\* A computeTranslationVector that rotates by the orientation, not by its
\* inverse.
computeTranslationVectorForward(initialT, finalT, q, t) ==
    LET translationFactor == VSub(finalT, initialT)
    IN  VAdd(t, QTransformVector(q,
                    <<translationFactor[1], translationFactor[2], RInt(0)>>))

\* A computeTranslationVector that takes the new position for the motion.
computeTranslationVectorAbsolute(initialT, finalT, q, t) ==
    VAdd(t, QTransformVector(QInverse(q), <<finalT[1], finalT[2], RInt(0)>>))

\* Trackball::computeTranslationVector: the new translationVector.
computeTranslationVector(initialT, finalT, q, t) ==
    LET translationFactor == VSub(finalT, initialT)
    IN  VAdd(t, QTransformVector(QInverse(q),
                    <<translationFactor[1], translationFactor[2], RInt(0)>>))

\* ------------------------------------------------------------ the calls

\* No translation gesture is followed.
NoGesture == [live |-> FALSE, t0 |-> Zero3, p0 |-> <<RInt(0), RInt(0)>>]

\* The calls that end a translation gesture or write q or t from outside
\* it; gesture follows a translation gesture from its begin up to the first
\* of them.
Interferes(op, branch) ==
    \/ op \in {"reset", "initOpenGLMatrices", "endTranslation",
               "translateViewMatrix", "rotateViewMatrix"}
    \/ op = "rotateCamera" /\ branch = "applied"

\* One more call, recorded with its argument, the branch it took ("begin",
\* "applied" or "skipped" for the two gesture calls, "" otherwise) and
\* whether it repeats the call before it (same operation, same argument);
\* the zoom, the view matrix and the rotating flag it found are kept in
\* before, and the translation and the normalized position a translation
\* gesture began with in gesture.
Call(op, arg, branch) ==
    /\ calls < MaxCalls
    /\ calls' = calls + 1
    /\ last' = [op |-> op, arg |-> arg, branch |-> branch,
                repeat |-> last.op = op /\ last.arg = arg, result |-> <<>>]
    /\ before' = [zoom |-> zoom, viewMatrix |-> viewMatrix,
                  rotating |-> rotating]
    /\ gesture' = IF op = "translateCamera" /\ branch = "begin"
                  THEN [live |-> TRUE, t0 |-> translationVector,
                        p0 |-> normalizePosition(arg, viewport)]
                  ELSE IF Interferes(op, branch) THEN NoGesture
                  ELSE gesture

\* A reset that leaves a gesture under way as it is.
resetKeepsGesture ==
    /\ Call("reset", <<>>, "")
    /\ quaternion' = QIdentity
    /\ default_quaternion' = QIdentity
    /\ zoom' = RInt(1)
    /\ translationVector' = Zero3
    /\ viewMatrix' = updateViewMatrix(QIdentity, defaultTranslation, QIdentity,
                                      Zero3, RInt(1))
    /\ UNCHANGED <<rotating, translating, trackballProjectionMatrix,
                   initialPosition, finalPosition, initialTranslationPosition,
                   finalTranslationPosition, defaultTranslation, radius,
                   viewport>>

\* A reset that does not recompute the view matrix.
resetNoRecompute ==
    /\ Call("reset", <<>>, "")
    /\ quaternion' = QIdentity
    /\ default_quaternion' = QIdentity
    /\ zoom' = RInt(1)
    /\ translationVector' = Zero3
    /\ rotating' = FALSE
    /\ translating' = FALSE
    /\ UNCHANGED <<trackballProjectionMatrix, initialPosition, finalPosition,
                   initialTranslationPosition, finalTranslationPosition,
                   defaultTranslation, radius, viewMatrix, viewport>>

\* Trackball::reset.
reset ==
    /\ Call("reset", <<>>, "")
    /\ quaternion' = QIdentity
    /\ default_quaternion' = QIdentity
    /\ zoom' = RInt(1)
    /\ translationVector' = Zero3
    /\ rotating' = FALSE
    /\ translating' = FALSE
    /\ viewMatrix' = updateViewMatrix(QIdentity, defaultTranslation, QIdentity,
                                      Zero3, RInt(1))
    /\ UNCHANGED <<trackballProjectionMatrix, initialPosition, finalPosition,
                   initialTranslationPosition, finalTranslationPosition,
                   defaultTranslation, radius, viewport>>

\* Trackball::initOpenGLMatrices: reset(), then translate(defaultTranslation).
initOpenGLMatrices ==
    /\ Call("initOpenGLMatrices", <<>>, "")
    /\ quaternion' = QIdentity
    /\ default_quaternion' = QIdentity
    /\ zoom' = RInt(1)
    /\ translationVector' = Zero3
    /\ rotating' = FALSE
    /\ translating' = FALSE
    /\ viewMatrix' = translate(updateViewMatrix(QIdentity, defaultTranslation,
                                                QIdentity, Zero3, RInt(1)),
                               defaultTranslation)
    /\ trackballProjectionMatrix' = "Identity"
    /\ UNCHANGED <<initialPosition, finalPosition, initialTranslationPosition,
                   finalTranslationPosition, defaultTranslation, radius,
                   viewport>>

\* Trackball::setDefaultTranslation.
setDefaultTranslation(t) ==
    /\ Call("setDefaultTranslation", t, "")
    /\ defaultTranslation' = t
    /\ UNCHANGED <<zoom, rotating, translating, trackballProjectionMatrix,
                   initialPosition, finalPosition, initialTranslationPosition,
                   finalTranslationPosition, quaternion, default_quaternion,
                   translationVector, radius, viewMatrix, viewport>>

\* Trackball::setDefaultRotation.
setDefaultRotation(rot) ==
    /\ Call("setDefaultRotation", rot, "")
    /\ default_quaternion' = QFromMatrix(rot)
    /\ UNCHANGED <<zoom, rotating, translating, trackballProjectionMatrix,
                   initialPosition, finalPosition, initialTranslationPosition,
                   finalTranslationPosition, quaternion, translationVector,
                   defaultTranslation, radius, viewMatrix, viewport>>

\* Trackball::setTrackballProjectionMatrix.
setTrackballProjectionMatrix(mat) ==
    /\ Call("setTrackballProjectionMatrix", mat, "")
    /\ trackballProjectionMatrix' = mat
    /\ UNCHANGED <<zoom, rotating, translating, initialPosition, finalPosition,
                   initialTranslationPosition, finalTranslationPosition,
                   quaternion, default_quaternion, translationVector,
                   defaultTranslation, radius, viewMatrix, viewport>>

\* An endRotation that ends the translation gesture too.
endRotationEndsBoth ==
    /\ Call("endRotation", <<>>, "")
    /\ rotating' = FALSE
    /\ translating' = FALSE
    /\ UNCHANGED <<zoom, trackballProjectionMatrix, initialPosition,
                   finalPosition, initialTranslationPosition,
                   finalTranslationPosition, quaternion, default_quaternion,
                   translationVector, defaultTranslation, radius, viewMatrix,
                   viewport>>

\* An endRotation that flips the flag.
endRotationToggle ==
    /\ Call("endRotation", <<>>, "")
    /\ rotating' = ~rotating
    /\ UNCHANGED <<zoom, translating, trackballProjectionMatrix,
                   initialPosition, finalPosition, initialTranslationPosition,
                   finalTranslationPosition, quaternion, default_quaternion,
                   translationVector, defaultTranslation, radius, viewMatrix,
                   viewport>>

\* Trackball::endRotation.
endRotation ==
    /\ Call("endRotation", <<>>, "")
    /\ rotating' = FALSE
    /\ UNCHANGED <<zoom, translating, trackballProjectionMatrix,
                   initialPosition, finalPosition, initialTranslationPosition,
                   finalTranslationPosition, quaternion, default_quaternion,
                   translationVector, defaultTranslation, radius, viewMatrix,
                   viewport>>

\* Trackball::endTranslation.
endTranslation ==
    /\ Call("endTranslation", <<>>, "")
    /\ translating' = FALSE
    /\ UNCHANGED <<zoom, rotating, trackballProjectionMatrix, initialPosition,
                   finalPosition, initialTranslationPosition,
                   finalTranslationPosition, quaternion, default_quaternion,
                   translationVector, defaultTranslation, radius, viewMatrix,
                   viewport>>

\* Trackball::rotateCamera, the guard of its second branch:
\* pos != initialPosition.head(2).
rotateCameraMoved(pos) == pos # Head2(initialPosition)

\* A begin that raises the flag and stores no sample.
rotateCameraBeginNoSample(normalized_pos) ==
    /\ rotating' = TRUE
    /\ UNCHANGED <<initialPosition, finalPosition, quaternion, viewMatrix>>

\* Trackball::rotateCamera, the branch taken when no rotation is under way.
rotateCameraBegin(normalized_pos) ==
    /\ rotating' = TRUE
    /\ initialPosition' = normalized_pos
    /\ UNCHANGED <<finalPosition, quaternion, viewMatrix>>

\* An update that does not advance the sample (no initialPosition =
\* finalPosition).
rotateCameraUpdateKeepsSample(normalized_pos) ==
    LET r == computeRotationAngle(initialPosition, normalized_pos, quaternion)
    IN  /\ quaternion' = r.quaternion
        /\ viewMatrix' = updateViewMatrix(default_quaternion,
                                          defaultTranslation, r.quaternion,
                                          translationVector, zoom)
        /\ finalPosition' = r.finalPosition
        /\ initialPosition' = r.initialPosition
        /\ UNCHANGED rotating

\* Trackball::rotateCamera, the branch that applies the rotation.
rotateCameraUpdate(normalized_pos) ==
    LET r == computeRotationAngle(initialPosition, normalized_pos, quaternion)
    IN  /\ quaternion' = r.quaternion
        /\ viewMatrix' = updateViewMatrix(default_quaternion,
                                          defaultTranslation, r.quaternion,
                                          translationVector, zoom)
        /\ finalPosition' = r.finalPosition
        /\ initialPosition' = r.finalPosition
        /\ UNCHANGED rotating

\* Trackball::rotateCamera.
rotateCamera(pos) ==
    LET normalized_pos ==
            computeSpherePosition(normalizePosition(pos, viewport), radius)
    IN  /\ IF ~rotating
           THEN /\ Call("rotateCamera", pos, "begin")
                /\ rotateCameraBegin(normalized_pos)
           ELSE IF rotateCameraMoved(pos)
           THEN /\ Call("rotateCamera", pos, "applied")
                /\ rotateCameraUpdate(normalized_pos)
           ELSE /\ Call("rotateCamera", pos, "skipped")
                /\ UNCHANGED <<rotating, initialPosition, finalPosition,
                               quaternion, viewMatrix>>
        /\ UNCHANGED <<zoom, translating, trackballProjectionMatrix,
                       initialTranslationPosition, finalTranslationPosition,
                       default_quaternion, translationVector,
                       defaultTranslation, radius, viewport>>

\* Trackball::translateCamera, the guard of its second branch:
\* pos != initialPosition.head(2).
translateCameraMoved(pos) == pos # Head2(initialPosition)

\* A begin that falls through to the update (no else).
translateCameraBeginApplies(normalized_pos) ==
    LET t == computeTranslationVector(initialTranslationPosition,
                                      normalized_pos, quaternion,
                                      translationVector)
    IN  /\ translating' = TRUE
        /\ finalTranslationPosition' = normalized_pos
        /\ translationVector' = t
        /\ viewMatrix' = updateViewMatrix(default_quaternion,
                                          defaultTranslation, quaternion, t,
                                          zoom)
        /\ initialTranslationPosition' = normalized_pos

\* Trackball::translateCamera, the branch taken when no translation is
\* under way.
translateCameraBegin(normalized_pos) ==
    /\ translating' = TRUE
    /\ initialTranslationPosition' = normalized_pos
    /\ UNCHANGED <<finalTranslationPosition, translationVector, viewMatrix>>

\* An update that applies the translation and keeps the reference where
\* the gesture began.
translateCameraUpdateKeepsReference(normalized_pos) ==
    LET t == computeTranslationVector(initialTranslationPosition,
                                      normalized_pos, quaternion,
                                      translationVector)
    IN  /\ finalTranslationPosition' = normalized_pos
        /\ translationVector' = t
        /\ viewMatrix' = updateViewMatrix(default_quaternion,
                                          defaultTranslation, quaternion, t,
                                          zoom)
        /\ UNCHANGED <<translating, initialTranslationPosition>>

\* Trackball::translateCamera, the branch that applies the translation.
translateCameraUpdate(normalized_pos) ==
    LET t == computeTranslationVector(initialTranslationPosition,
                                      normalized_pos, quaternion,
                                      translationVector)
    IN  /\ finalTranslationPosition' = normalized_pos
        /\ translationVector' = t
        /\ viewMatrix' = updateViewMatrix(default_quaternion,
                                          defaultTranslation, quaternion, t,
                                          zoom)
        /\ initialTranslationPosition' = normalized_pos
        /\ UNCHANGED translating

\* Trackball::translateCamera.
translateCamera(pos) ==
    LET normalized_pos == normalizePosition(pos, viewport)
    IN  /\ IF ~translating
           THEN /\ Call("translateCamera", pos, "begin")
                /\ translateCameraBegin(normalized_pos)
           ELSE IF translateCameraMoved(pos)
           THEN /\ Call("translateCamera", pos, "applied")
                /\ translateCameraUpdate(normalized_pos)
           ELSE /\ Call("translateCamera", pos, "skipped")
                /\ UNCHANGED <<translating, initialTranslationPosition,
                               finalTranslationPosition, translationVector,
                               viewMatrix>>
        /\ UNCHANGED <<zoom, rotating, trackballProjectionMatrix,
                       initialPosition, finalPosition, quaternion,
                       default_quaternion, defaultTranslation, radius,
                       viewport>>

\* Trackball::translateCamera as a function of what it reads: the
\* translation and the translation reference it leaves when it is called at
\* pos with the rotation reference initial, the translating flag flag, the
\* translation reference initialT, the rotation q and the translation t.
translateCameraResult(pos, initial, flag, initialT, q, t, vp) ==
    LET normalized_pos == normalizePosition(pos, vp)
    IN  IF ~flag
        THEN [translationVector |-> t,
              initialTranslationPosition |-> normalized_pos]
        ELSE IF pos # Head2(initial)
        THEN [translationVector |->
                  computeTranslationVector(initialT, normalized_pos, q, t),
              initialTranslationPosition |-> normalized_pos]
        ELSE [translationVector |-> t, initialTranslationPosition |-> initialT]

\* An increaseZoom that takes the factor away from the zoom.
increaseZoomSubtracts(f) ==
    /\ Call("increaseZoom", f, "")
    /\ zoom' = RSub(zoom, f)
    /\ viewMatrix' = updateViewMatrix(default_quaternion, defaultTranslation,
                                      quaternion, translationVector,
                                      RSub(zoom, f))
    /\ UNCHANGED <<rotating, translating, trackballProjectionMatrix,
                   initialPosition, finalPosition, initialTranslationPosition,
                   finalTranslationPosition, quaternion, default_quaternion,
                   translationVector, defaultTranslation, radius, viewport>>

\* Trackball::increaseZoom.
increaseZoom(f) ==
    /\ Call("increaseZoom", f, "")
    /\ zoom' = RMul(zoom, f)
    /\ viewMatrix' = updateViewMatrix(default_quaternion, defaultTranslation,
                                      quaternion, translationVector,
                                      RMul(zoom, f))
    /\ UNCHANGED <<rotating, translating, trackballProjectionMatrix,
                   initialPosition, finalPosition, initialTranslationPosition,
                   finalTranslationPosition, quaternion, default_quaternion,
                   translationVector, defaultTranslation, radius, viewport>>

\* A decreaseZoom that multiplies.
decreaseZoomMultiplies(f) ==
    /\ Call("decreaseZoom", f, "")
    /\ zoom' = RMul(zoom, f)
    /\ viewMatrix' = updateViewMatrix(default_quaternion, defaultTranslation,
                                      quaternion, translationVector,
                                      RMul(zoom, f))
    /\ UNCHANGED <<rotating, translating, trackballProjectionMatrix,
                   initialPosition, finalPosition, initialTranslationPosition,
                   finalTranslationPosition, quaternion, default_quaternion,
                   translationVector, defaultTranslation, radius, viewport>>

\* Trackball::decreaseZoom.
decreaseZoom(f) ==
    /\ Call("decreaseZoom", f, "")
    /\ zoom' = RDiv(zoom, f)
    /\ viewMatrix' = updateViewMatrix(default_quaternion, defaultTranslation,
                                      quaternion, translationVector,
                                      RDiv(zoom, f))
    /\ UNCHANGED <<rotating, translating, trackballProjectionMatrix,
                   initialPosition, finalPosition, initialTranslationPosition,
                   finalTranslationPosition, quaternion, default_quaternion,
                   translationVector, defaultTranslation, radius, viewport>>

\* Trackball::applyScaleToViewMatrix.
applyScaleToViewMatrix(z) ==
    /\ Call("applyScaleToViewMatrix", z, "")
    /\ zoom' = z
    /\ viewMatrix' = updateViewMatrix(default_quaternion, defaultTranslation,
                                      quaternion, translationVector, z)
    /\ UNCHANGED <<rotating, translating, trackballProjectionMatrix,
                   initialPosition, finalPosition, initialTranslationPosition,
                   finalTranslationPosition, quaternion, default_quaternion,
                   translationVector, defaultTranslation, radius, viewport>>

\* Trackball::translateViewMatrix.
translateViewMatrix(t) ==
    /\ Call("translateViewMatrix", t, "")
    /\ translationVector' = VAdd(translationVector, t)
    /\ UNCHANGED <<zoom, rotating, translating, trackballProjectionMatrix,
                   initialPosition, finalPosition, initialTranslationPosition,
                   finalTranslationPosition, quaternion, default_quaternion,
                   defaultTranslation, radius, viewMatrix, viewport>>

\* Trackball::rotateViewMatrix; rot is the rotation of the given transform,
\* a rotation matrix.
rotateViewMatrix(rot) ==
    /\ Call("rotateViewMatrix", rot, "")
    /\ quaternion' = QNormalize(QMul(quaternion, QFromMatrix(rot)))
    /\ UNCHANGED <<zoom, rotating, translating, trackballProjectionMatrix,
                   initialPosition, finalPosition, initialTranslationPosition,
                   finalTranslationPosition, default_quaternion,
                   translationVector, defaultTranslation, radius, viewMatrix,
                   viewport>>

\* One more call of a read-only accessor, recorded with the value it
\* returns; no member is written.
Read(op, value) ==
    /\ calls < MaxReads
    /\ calls' = calls + 1
    /\ last' = [op |-> op, arg |-> <<>>, branch |-> "",
                repeat |-> last.op = op, result |-> value]
    /\ UNCHANGED <<fields, before, gesture>>

\* Trackball::isRotating.
isRotating == Read("isRotating", rotating)

\* Trackball::isTranslating.
isTranslating == Read("isTranslating", translating)

\* Trackball::getDefaultTranslation.
getDefaultTranslation == Read("getDefaultTranslation", defaultTranslation)

\* Trackball::getDefaultRotation.
getDefaultRotation == Read("getDefaultRotation", default_quaternion)

\* A getRotation that multiplies in the other order:
\* default_quaternion * quaternion.
getRotationDefaultFirst ==
    Read("getRotation", QMul(default_quaternion, quaternion))

\* Trackball::getRotation: quaternion * default_quaternion.
getRotation == Read("getRotation", QMul(quaternion, default_quaternion))

\* Trackball::getZoom.
getZoom == Read("getZoom", zoom)

\* One more application of a protected pure member function, recorded with
\* its argument, the branch it took and the value it returns; no member is
\* written.
Apply(op, arg, branch, value) ==
    /\ calls < MaxApplications
    /\ calls' = calls + 1
    /\ last' = [op |-> op, arg |-> arg, branch |-> branch,
                repeat |-> last.op = op /\ last.arg = arg, result |-> value]
    /\ UNCHANGED <<fields, before, gesture>>

\* Trackball::normalizePosition, applied to a screen position.
applyNormalizePosition(pos) ==
    Apply("normalizePosition", pos, "", normalizePosition(pos, viewport))

\* Trackball::computeSpherePosition, applied to a normalized position; the
\* height is recorded as its square.
applyComputeSpherePosition(p) ==
    Apply("computeSpherePosition", p,
          IF UnderSphere(p, radius) THEN "sphere" ELSE "hyperbola",
          computeSpherePositionSquared(p, radius))

\* ------------------------------------------------------ the specification

\* The view matrix of a constructor that calls reset() first and
\* initOpenGLMatrices() last.
ConstructedViewMatrixInitLast ==
    translate(updateViewMatrix(QIdentity, <<RInt(0), RInt(0), RInt(-4)>>,
                               QIdentity, Zero3, RInt(1)),
              <<RInt(0), RInt(0), RInt(-4)>>)

\* Trackball::Trackball(), its last two calls: initOpenGLMatrices(), then
\* reset(), whose updateViewMatrix leaves the view matrix.
ConstructedViewMatrix ==
    updateViewMatrix(QIdentity, <<RInt(0), RInt(0), RInt(-4)>>, QIdentity,
                     Zero3, RInt(1))

\* Trackball::Trackball(): the state the constructor leaves in a camera
\* whose viewport is vp.  The four position members are not assigned by it.
Constructed(vp) ==
    /\ defaultTranslation = <<RInt(0), RInt(0), RInt(-4)>>
    /\ zoom = RInt(1)
    /\ radius = Rat(4, 5)
    /\ trackballProjectionMatrix = "Identity"
    /\ quaternion = QIdentity
    /\ default_quaternion = QIdentity
    /\ translationVector = Zero3
    /\ rotating = FALSE
    /\ translating = FALSE
    /\ viewMatrix = ConstructedViewMatrix
    /\ viewport = vp
    /\ initialPosition \in Uninitialized3
    /\ finalPosition \in Unread3
    /\ initialTranslationPosition \in Unread2
    /\ finalTranslationPosition \in Unread2
    /\ last = [op |-> "Trackball", arg |-> <<>>, branch |-> "",
               repeat |-> FALSE, result |-> <<>>]
    /\ before = [zoom |-> zoom, viewMatrix |-> viewMatrix,
                 rotating |-> rotating]
    /\ gesture = NoGesture
    /\ calls = 0

\* The controller as constructed, in the viewport of the gestures.
Init == Constructed(Viewport)

Next ==
    \/ reset
    \/ initOpenGLMatrices
    \/ \E t \in DefaultTranslations : setDefaultTranslation(t)
    \/ \E rot \in Rotations : setDefaultRotation(rot)
    \/ \E mat \in ProjectionMatrices : setTrackballProjectionMatrix(mat)
    \/ endRotation
    \/ endTranslation
    \/ \E pos \in RotationPositions : rotateCamera(pos)
    \/ \E pos \in TranslationPositions : translateCamera(pos)
    \/ \E f \in ZoomFactors : increaseZoom(f)
    \/ \E f \in ZoomFactors : decreaseZoom(f)
    \/ \E z \in ZoomValues : applyScaleToViewMatrix(z)
    \/ \E t \in Translations : translateViewMatrix(t)
    \/ \E rot \in Rotations : rotateViewMatrix(rot)

Spec == Init /\ [][Next]_vars

\* The read-only accessors called on the controller as constructed, in any
\* number and order.
NextAccessors ==
    \/ isRotating
    \/ isTranslating
    \/ getDefaultTranslation
    \/ getDefaultRotation
    \/ getRotation
    \/ getZoom

SpecAccessors == Init /\ [][NextAccessors]_vars

\* The calls that write the two rotations, and getRotation, in any number
\* and order.
NextRotations ==
    \/ reset
    \/ \E rot \in Rotations : setDefaultRotation(rot)
    \/ \E rot \in Rotations : rotateViewMatrix(rot)
    \/ \E pos \in RotationPositions : rotateCamera(pos)
    \/ endRotation
    \/ getRotation

SpecRotations == Init /\ [][NextRotations]_vars

\* The two projections of a pointer position, applied to positions of a
\* grid in any number and order, in a viewport at the origin and in one
\* away from it.
InitProjection == \E vp \in Viewports : Constructed(vp)

NextProjection ==
    \/ \E pos \in ScreenPoints(viewport) : applyNormalizePosition(pos)
    \/ \E p \in NormalizedPoints : applyComputeSpherePosition(p)

SpecProjection == InitProjection /\ [][NextProjection]_vars

\* ---------------------------------------------------------- the claims

\* The surface point of a screen position, as rotateCamera computes it.
SurfacePoint(pos) ==
    computeSpherePosition(normalizePosition(pos, viewport), radius)

\* The 2D position of a screen position, as translateCamera computes it.
Normalized(pos) == normalizePosition(pos, viewport)

\* The step is a call of op.
Called(op) == calls' # calls /\ last'.op = op

Accumulators == <<quaternion, translationVector, zoom, viewMatrix>>

\* C1: a rotateCamera(p) call made while the rotation gesture is Idle sets
\* rotating and stores the surface point of p as the reference sample, and
\* leaves q, t, z and the view matrix as they are; a translateCamera(p) call
\* made while the translation gesture is Idle does the same with translating
\* and the normalized position of p.
C1_BeginOnlyArms ==
    [][/\ (Called("rotateCamera") /\ ~rotating) =>
              /\ rotating'
              /\ initialPosition' = SurfacePoint(last'.arg)
              /\ UNCHANGED Accumulators
       /\ (Called("translateCamera") /\ ~translating) =>
              /\ translating'
              /\ initialTranslationPosition' = Normalized(last'.arg)
              /\ UNCHANGED Accumulators]_vars

\* C1, its case: a rotation begun after an earlier gesture has turned q.
C1_Witness ==
    /\ last.op = "rotateCamera"
    /\ last.branch = "begin"
    /\ rotating
    /\ initialPosition = SurfacePoint(last.arg)
    /\ quaternion # QIdentity

\* C2, as claimed: a rotateCamera or translateCamera call made while its
\* gesture is Idle changes nothing in the controller.
C2_StrayUpdateChangesNothing ==
    [][((Called("rotateCamera") /\ ~rotating)
        \/ (Called("translateCamera") /\ ~translating)) =>
           UNCHANGED fields]_vars

\* C2, amended: a rotateCamera or translateCamera call made while its gesture
\* is Idle takes the begin branch; it changes none of q, t, z, the view
\* matrix and the default pose, and it changes neither the flag nor the
\* reference sample of the other gesture.
C2_IdleCallKeepsAccumulators ==
    [][/\ (Called("rotateCamera") /\ ~rotating) =>
              /\ last'.branch = "begin"
              /\ UNCHANGED <<Accumulators, default_quaternion,
                             defaultTranslation, translating,
                             initialTranslationPosition>>
       /\ (Called("translateCamera") /\ ~translating) =>
              /\ last'.branch = "begin"
              /\ UNCHANGED <<Accumulators, default_quaternion,
                             defaultTranslation, rotating,
                             initialPosition>>]_vars

\* C2, its case: a translation call made while Idle, with q and t not at
\* their defaults.
C2_Witness ==
    /\ last.op = "translateCamera"
    /\ last.branch = "begin"
    /\ quaternion # QIdentity
    /\ translationVector # Zero3

\* The reference sample of the rotation gesture was produced by position p:
\* it is the surface point of p, as the begin branch stores it, or that point
\* at unit length, as an update stores it.
ProducedReference(p) ==
    \/ initialPosition = SurfacePoint(p)
    \/ initialPosition = NormalizeIfNonZero(SurfacePoint(p))

\* C3: while Rotating, a rotateCamera(p) call is skipped exactly when p is
\* the position that produced the current reference sample.
C3_SkippedIffSamePosition ==
    [][(Called("rotateCamera") /\ rotating) =>
           (last'.branch = "skipped" <=> ProducedReference(last'.arg))]_vars

\* C4: while Translating, a translateCamera(p) call is skipped exactly when
\* the normalized position of p equals initialTranslationPosition, and an
\* applied call advances initialTranslationPosition to it.
C4_SkippedIffAtReference ==
    [][(Called("translateCamera") /\ translating) =>
           /\ last'.branch = "skipped" <=>
                  Normalized(last'.arg) = initialTranslationPosition
           /\ last'.branch = "applied" =>
                  initialTranslationPosition' = Normalized(last'.arg)]_vars

\* C5: a rotateCamera(p) call that repeats the rotateCamera(p) call before
\* it leaves q as it is, and so does every rotateCamera call whose surface
\* point lies in the direction of the reference sample.
C5_RepeatedUpdateKeepsOrientation ==
    [][/\ (Called("rotateCamera") /\ last'.repeat) => quaternion' = quaternion
       /\ (Called("rotateCamera") /\ rotating
           /\ NormalizeIfNonZero(SurfacePoint(last'.arg)) =
                  NormalizeIfNonZero(initialPosition)) =>
              quaternion' = quaternion]_vars

\* C5, its case: an update applied at the position of the update before it,
\* with q turned by the first of the two.
C5_Witness ==
    /\ last.op = "rotateCamera"
    /\ last.branch = "applied"
    /\ last.repeat
    /\ quaternion # QIdentity

\* The increment of an applied rotation update, q' * q^-1, takes the
\* direction of the old reference sample to the direction of the new surface
\* point and fixes the normal of the two.
LeftIncrementTurns(a, b) ==
    LET dq == QMul(quaternion', QInverse(quaternion))
        ua == NormalizeIfNonZero(a)
        ub == NormalizeIfNonZero(b)
    IN  /\ QTransformVector(dq, ua) = ub
        /\ QTransformVector(dq, VCross(ua, ub)) = VCross(ua, ub)

\* C6, as claimed: an applied rotation update composes the increment on the
\* left of q and leaves the new surface point as the reference sample.
C6_ReferenceIsSurfacePoint ==
    [][(Called("rotateCamera") /\ last'.branch = "applied") =>
           /\ LeftIncrementTurns(initialPosition, SurfacePoint(last'.arg))
           /\ initialPosition' = SurfacePoint(last'.arg)]_vars

\* C6, amended: an applied rotation update composes the increment on the
\* left of q (q becomes delta * q, of unit norm) and leaves as the reference
\* sample the new surface point scaled to unit length, so the next update is
\* measured from the last processed sample.
C6_LeftComposeAndAdvance ==
    [][(Called("rotateCamera") /\ last'.branch = "applied") =>
           /\ LeftIncrementTurns(initialPosition, SurfacePoint(last'.arg))
           /\ QSquaredNorm(quaternion') = RInt(1)
           /\ initialPosition' = NormalizeIfNonZero(SurfacePoint(last'.arg))
           /\ finalPosition' = initialPosition']_vars

\* The rotation that one update from position p1 to position p2 applies.
Turn(p1, p2) ==
    computeRotationAngle(SurfacePoint(p1), SurfacePoint(p2),
                         QIdentity).quaternion

\* C6, its case: the updates Centre -> Right -> Up of one gesture, whose
\* two increments do not commute; q is the second times the first.
C6_Witness ==
    /\ last.op = "rotateCamera"
    /\ last.branch = "applied"
    /\ last.arg = Up
    /\ quaternion = QNormalize(QMul(Turn(Right, Up), Turn(Centre, Right)))
    /\ quaternion # QNormalize(QMul(Turn(Centre, Right), Turn(Right, Up)))
    /\ initialPosition = NormalizeIfNonZero(SurfacePoint(Up))

\* C7: the orientation q has unit norm in every state.
C7_UnitNorm == QSquaredNorm(quaternion) = RInt(1)

\* C7, its case: q after a rotation update and a rotateViewMatrix call.
C7_Witness ==
    /\ last.op = "rotateViewMatrix"
    /\ quaternion.v[3] # 0
    /\ quaternion.v[4] # 0

\* C8: an applied translation update adds to t the vector (normalize(p) -
\* reference, 0) rotated by the inverse of the q of that moment (rotating the
\* increment by q gives the vector back), which is the vector itself when q
\* is the identity, and advances the reference to normalize(p).
C8_TranslationIncrement ==
    [][(Called("translateCamera") /\ last'.branch = "applied") =>
           LET d == VSub(Normalized(last'.arg), initialTranslationPosition)
               d3 == <<d[1], d[2], RInt(0)>>
               inc == VSub(translationVector', translationVector)
           IN  /\ QTransformVector(quaternion, inc) = d3
               /\ quaternion = QIdentity => inc = d3
               /\ initialTranslationPosition' = Normalized(last'.arg)]_vars

\* C8, its case: an applied translation update under a turned q.
C8_Witness ==
    /\ last.op = "translateCamera"
    /\ last.branch = "applied"
    /\ quaternion # QIdentity
    /\ translationVector # Zero3

\* C9: a translateCamera(p0) call that follows the translateCamera(p0) call
\* that began the gesture leaves t as it is.
C9_UpdateAtBeginKeepsTranslation ==
    [][(last.op = "translateCamera" /\ last.branch = "begin"
        /\ Called("translateCamera") /\ last'.repeat) =>
           translationVector' = translationVector]_vars

\* C9, its case: the update at the begin point was applied (not skipped),
\* under a turned q.
C9_Witness ==
    /\ calls = 3
    /\ last.op = "translateCamera"
    /\ last.branch = "applied"
    /\ last.repeat
    /\ quaternion # QIdentity

\* C10: endRotation leaves rotating false and endTranslation leaves
\* translating false; neither changes anything else, so that a call made
\* when the gesture is Idle, or a second call in a row, changes nothing.
C10_EndIsIdempotent ==
    [][/\ Called("endRotation") =>
              /\ ~rotating'
              /\ UNCHANGED <<Accumulators, translating, default_quaternion,
                             defaultTranslation, initialPosition,
                             initialTranslationPosition>>
              /\ (~rotating \/ last'.repeat) => UNCHANGED fields
       /\ Called("endTranslation") =>
              /\ ~translating'
              /\ UNCHANGED <<Accumulators, rotating, default_quaternion,
                             defaultTranslation, initialPosition,
                             initialTranslationPosition>>
              /\ (~translating \/ last'.repeat) => UNCHANGED fields]_vars

\* C10, its case: a rotation ended while a translation is under way and q
\* is turned.
C10_Witness ==
    /\ last.op = "endRotation"
    /\ ~rotating
    /\ translating
    /\ quaternion # QIdentity

\* C11: a rotateCamera or endRotation call never changes translating and a
\* translateCamera or endTranslation call never changes rotating, so the two
\* gestures can be under way together.
C11_GesturesAreIndependent ==
    [][/\ (Called("rotateCamera") \/ Called("endRotation")) =>
              UNCHANGED translating
       /\ (Called("translateCamera") \/ Called("endTranslation")) =>
              UNCHANGED rotating]_vars

\* C11, its case: a translation begun while a rotation is under way; both
\* flags are true.
C11_Witness ==
    /\ last.op = "translateCamera"
    /\ last.branch = "begin"
    /\ before.rotating
    /\ rotating
    /\ translating

\* C12: a reset call leaves q the identity, t zero, z one and both gestures
\* Idle, and the view matrix is the one recomputed from the values it
\* leaves.
C12_ResetRestoresDefaults ==
    [][Called("reset") =>
           /\ quaternion' = QIdentity
           /\ translationVector' = Zero3
           /\ zoom' = RInt(1)
           /\ ~rotating'
           /\ ~translating'
           /\ viewMatrix' = updateViewMatrix(default_quaternion',
                                             defaultTranslation', quaternion',
                                             translationVector', zoom')]_vars

\* C12, its case: a reset in the middle of a rotation gesture, made with the
\* view turned and zoomed.
C12_Witness ==
    /\ last.op = "reset"
    /\ before.rotating
    /\ before.zoom # RInt(1)
    /\ before.viewMatrix.lin #
           scale(resetViewMatrix, before.zoom).lin
    /\ ~rotating
    /\ quaternion = QIdentity

\* C13: a reset call leaves the viewport, the default rotation, the default
\* translation and the trackball projection matrix as they are.
C13_ResetKeepsConfiguration ==
    [][Called("reset") =>
           UNCHANGED <<viewport, default_quaternion, defaultTranslation,
                       trackballProjectionMatrix>>]_vars

\* C14: the view matrix a reset call leaves is the default translation
\* applied to the identity, whatever the calls before it, and a reset call
\* that follows a reset call changes nothing.
C14_ResetForgetsHistory ==
    [][Called("reset") =>
           /\ viewMatrix' = [lin |-> Identity3, tr |-> defaultTranslation']
           /\ last.op = "reset" => UNCHANGED fields]_vars

\* C14, its case: two reset calls after an applied rotation update.
C14_Witness ==
    /\ last.op = "reset"
    /\ last.repeat
    /\ finalPosition = NormalizeIfNonZero(SurfacePoint(Up))
    /\ viewMatrix = [lin |-> Identity3, tr |-> defaultTranslation]

\* The view matrix M is the composition of q_default, t_default, q, t and
\* z, written out: it takes a point x to
\* z * (q * (q_default * x + t_default) + t), so its linear part is
\* z * R(q) * R(q_default) and its translation z * (R(q) * t_default + t).
IsComposed(M, dq, dt, q, t, z) ==
    \A R \in {QToRotationMatrix(q)} :
        \A L \in {MatMul(R, QToRotationMatrix(dq))} :
            /\ M.lin = <<VScale(z, L[1]), VScale(z, L[2]), VScale(z, L[3])>>
            /\ M.tr = VScale(z, VAdd(MatVec(R, dt), t))

\* The view matrix is the composition of the current values.
ViewIsComposed ==
    IsComposed(viewMatrix, default_quaternion, defaultTranslation,
               quaternion, translationVector, zoom)

\* The view matrix the step leaves is the composition of the values the
\* step leaves.
ViewIsComposedAfter ==
    IsComposed(viewMatrix', default_quaternion', defaultTranslation',
               quaternion', translationVector', zoom')

\* The step is a call that recomputes the view matrix: an applied rotation
\* or translation update, a zoom call or a reset.
Recomputes ==
    \/ (Called("rotateCamera") /\ last'.branch = "applied")
    \/ (Called("translateCamera") /\ last'.branch = "applied")
    \/ Called("increaseZoom")
    \/ Called("decreaseZoom")
    \/ Called("applyScaleToViewMatrix")
    \/ Called("reset")

\* C15: after an applied rotation update, an applied translation update,
\* increaseZoom, decreaseZoom, applyScaleToViewMatrix and reset, the view
\* matrix is the one composed from the current values in the order
\* rotate(q_default), translate(t_default), rotate(q), translate(t),
\* scale(z); it does not depend on the view matrix before the call.
C15_ViewMatrixRebuiltInOrder ==
    [][Recomputes => ViewIsComposedAfter]_vars

\* C15, its case: a recompute with none of q_default, q, t and z at its
\* default, made over a view matrix that was out of date.
C15_Witness ==
    /\ last.op = "increaseZoom"
    /\ default_quaternion # QIdentity
    /\ quaternion # QIdentity
    /\ translationVector # Zero3
    /\ zoom # RInt(1)
    /\ before.viewMatrix = [lin |-> Identity3, tr |-> defaultTranslation]
    /\ ViewIsComposed

\* C16: after every call that changes q or t the view matrix is the one
\* composed from the current q_default, t_default, q, t and z.
C16_RecomputedOnEveryMutation ==
    [][(quaternion' # quaternion \/ translationVector' # translationVector) =>
           ViewIsComposedAfter]_vars

ZoomCalled ==
    \/ Called("increaseZoom")
    \/ Called("decreaseZoom")
    \/ Called("applyScaleToViewMatrix")

\* C18: increaseZoom(f) leaves z * f in z, decreaseZoom(f) leaves z / f and
\* applyScaleToViewMatrix(v) leaves v; each leaves the view matrix composed
\* from the current values, and none changes q, t, the default pose, the
\* gesture flags or the reference samples.
C18_ZoomCalls ==
    [][/\ Called("increaseZoom") => zoom' = RMul(zoom, last'.arg)
       /\ Called("decreaseZoom") => RMul(zoom', last'.arg) = zoom
       /\ Called("applyScaleToViewMatrix") => zoom' = last'.arg
       /\ ZoomCalled =>
              /\ ViewIsComposedAfter
              /\ UNCHANGED <<quaternion, translationVector,
                             default_quaternion, defaultTranslation,
                             rotating, translating, initialPosition,
                             initialTranslationPosition>>]_vars

\* C18, its case: decreaseZoom(2) on a zoom of 3, in the middle of a rotation
\* gesture that has turned q.
C18_Witness ==
    /\ last.op = "decreaseZoom"
    /\ before.zoom = RInt(3)
    /\ zoom = Rat(3, 2)
    /\ rotating
    /\ quaternion # QIdentity

\* C19: a decreaseZoom(f) call that follows an increaseZoom(f) call leaves
\* the zoom and the view matrix that the increaseZoom call found.
C19_ZoomPairRestores ==
    [][(last.op = "increaseZoom" /\ Called("decreaseZoom")
        /\ last'.arg = last.arg) =>
           /\ zoom' = before.zoom
           /\ viewMatrix' = before.viewMatrix]_vars

\* C20, as claimed: the zoom is positive in every state.
C20_ZoomPositive == RLt(RInt(0), zoom)

\* C20, amended: a call keeps a positive zoom positive when it is not a zoom
\* call or when the factor or value it is given is positive.
C20_PositiveArgumentsKeepZoomPositive ==
    [][(RLt(RInt(0), zoom) /\ (ZoomCalled => RLt(RInt(0), last'.arg))) =>
           RLt(RInt(0), zoom')]_vars

\* C20, its case: a zoom set to 3 and then doubled.
C20_Witness ==
    /\ last.op = "increaseZoom"
    /\ before.zoom = RInt(3)
    /\ zoom = RInt(6)

\* ------------------------------------------- the projections of a position

\* The last step applied op.
Applied(op) == last.op = op

\* The corners and the centre of a viewport (x0, y0, x1, y1); the screen's y
\* axis points down, so (x0, y0) is the top-left corner.
TopLeftOf(vp) == <<vp[1], vp[2]>>
BottomRightOf(vp) == <<vp[3], vp[4]>>
CentreOf(vp) ==
    <<RDiv(RAdd(vp[1], vp[3]), RInt(2)), RDiv(RAdd(vp[2], vp[4]), RInt(2))>>

InUnitSquare(n) ==
    /\ RLe(RInt(-1), n[1]) /\ RLe(n[1], RInt(1))
    /\ RLe(RInt(-1), n[2]) /\ RLe(n[2], RInt(1))

\* C21: normalizePosition maps the screen rectangle of every viewport
\* (x0, y0, x1, y1) to [-1, 1]^2 with the y axis flipped: a screen point of
\* the rectangle lands in [-1, 1]^2, the top-left corner on (-1, 1), the
\* centre on (0, 0) and the bottom-right corner on (1, -1).
C21_ViewportMapsToSquare ==
    Applied("normalizePosition") =>
        /\ InUnitSquare(last.result)
        /\ last.arg = TopLeftOf(viewport)
               => last.result = <<RInt(-1), RInt(1)>>
        /\ last.arg = CentreOf(viewport)
               => last.result = <<RInt(0), RInt(0)>>
        /\ last.arg = BottomRightOf(viewport)
               => last.result = <<RInt(1), RInt(-1)>>

\* A non-negative rational that is the square of a rational.
IsSquare(a) ==
    /\ a[1] >= 0
    /\ \A n \in {SqrtBetween(a[1], 0, a[1] + 1)} : n * n = a[1]
    /\ \A d \in {SqrtBetween(a[2], 0, a[2] + 1)} : d * d = a[2]

\* x*x + y*y of a normalized position, and r*r.
D2(p) == RAdd(RMul(p[1], p[1]), RMul(p[2], p[2]))
R2 == RMul(radius, radius)

\* The height of p's surface point is rational: what the code takes the
\* root of is a square.
HasRationalHeight(p) ==
    IF RLe(RMul(RInt(2), D2(p)), R2) THEN IsSquare(RSub(R2, D2(p)))
    ELSE IsSquare(D2(p))

\* C22: computeSpherePosition(p) returns (p.x, p.y, z) with x and y
\* unchanged; z*z = r*r - x*x - y*y when x*x + y*y <= r*r/2 (the boundary
\* included) and z = r*r/(2*sqrt(x*x + y*y)) otherwise.  Where the height
\* is rational it is the height of the surface point a rotation uses.
C22_SurfacePoint ==
    Applied("computeSpherePosition") =>
        LET p == last.arg
            s == last.result
        IN  /\ s[1] = p[1] /\ s[2] = p[2]
            /\ IF RLe(RMul(RInt(2), D2(p)), R2)
               THEN /\ last.branch = "sphere"
                    /\ RAdd(D2(p), s[3]) = R2
               ELSE /\ last.branch = "hyperbola"
                    /\ RLt(RInt(0), s[3])
                    /\ RMul(RMul(RInt(4), D2(p)), s[3]) = RMul(R2, R2)
            /\ HasRationalHeight(p) =>
                   \A z \in {computeSpherePosition(p, radius)[3]} :
                       RLe(RInt(0), z) /\ RMul(z, z) = s[3]

\* A point of the hyperbolic sheet with a rational height has been
\* projected.
C22_Witness ==
    /\ Applied("computeSpherePosition")
    /\ last.branch = "hyperbola"
    /\ HasRationalHeight(last.arg)

\* The distance of two rationals.
RDistance(a, b) == IF RLe(a, b) THEN RSub(b, a) ELSE RSub(a, b)

\* C23: the height is continuous across the circle x*x + y*y = r*r/2: on
\* the circle the sphere's and the sheet's formula give the same height,
\* z*z = r*r/2, and on either side z*z is no farther from r*r/2 than
\* x*x + y*y is, so the heights of points that approach the circle from
\* inside and from outside have the same limit.
C23_HeightsMeetOnTheCircle ==
    Applied("computeSpherePosition") =>
        LET p == last.arg
            half == RDiv(R2, RInt(2))
        IN  /\ D2(p) = half =>
                   /\ SphereHeightSquared(p, radius) = half
                   /\ HyperbolaHeightSquared(p, radius) = half
                   /\ last.result[3] = half
            /\ RLe(RDistance(last.result[3], half), RDistance(D2(p), half))

\* A point of the circle has been projected.
C23_Witness ==
    /\ Applied("computeSpherePosition")
    /\ D2(last.arg) = RDiv(R2, RInt(2))

\* The cosine of the angle of two surface points a and b (heights squared)
\* is above -1: the part of a.b that comes from x and y is at least
\* -sqrt(da*db) (da, db the squared distances), the part that comes from the
\* heights is positive, and |a||b| is above sqrt(da*db).
AngleBelowPi(a, b) ==
    LET da == D2(a)
        db == D2(b)
        xy == RAdd(RMul(a[1], b[1]), RMul(a[2], b[2]))
    IN  /\ RLe(RMul(xy, xy), RMul(da, db))
        /\ RLt(RInt(0), a[3]) /\ RLt(RInt(0), b[3])
        /\ RLt(RInt(0), RAdd(RAdd(RMul(da, b[3]), RMul(a[3], db)),
                             RMul(a[3], b[3])))

\* C30: computeSpherePosition is defined for every normalized position
\* (r > 0): the sphere's branch takes no root of a negative number, the
\* sheet's branch divides by no zero, and the height satisfies 0 < z <= r
\* with z = r at the origin only; so two surface points are never opposite
\* and the angle between them is below pi.
C30_HeightIsPositive ==
    Applied("computeSpherePosition") =>
        LET p == last.arg
            s == last.result
        IN  /\ RLt(RInt(0), radius)
            /\ last.branch = "sphere" => RLe(D2(p), R2)
            /\ last.branch = "hyperbola" => D2(p) # RInt(0)
            /\ s[3] \notin {NaN, Infinity}
            /\ RLt(RInt(0), s[3]) /\ RLe(s[3], R2)
            /\ s[3] = R2 <=> p = <<RInt(0), RInt(0)>>
            /\ \A other \in NormalizedPoints :
                   AngleBelowPi(s, computeSpherePositionSquared(other,
                                                                radius))

\* A point outside the sphere's rim has been projected.
C30_Witness ==
    /\ Applied("computeSpherePosition")
    /\ last.branch = "hyperbola"
    /\ RLt(R2, D2(last.arg))

\* ------------------------------------------------------------ getRotation

C25_OnlyConfigurationChangesDefaults ==
    [][/\ Called("rotateCamera") \/ Called("endRotation")
              => UNCHANGED <<translationVector, zoom, default_quaternion,
                             defaultTranslation>>
       /\ Called("translateCamera") \/ Called("endTranslation")
              => UNCHANGED <<quaternion, zoom, default_quaternion,
                             defaultTranslation>>
       /\ default_quaternion' # default_quaternion
              => Called("setDefaultRotation")
       /\ defaultTranslation' # defaultTranslation
              => Called("setDefaultTranslation")]_vars

\* C26: after initOpenGLMatrices() the view matrix is the identity
\* translated by defaultTranslation once, which is the matrix
\* updateViewMatrix() computes from the members the call leaves, and the
\* trackball projection matrix is the identity.
C26_InitTranslatesOnce ==
    [][Called("initOpenGLMatrices") =>
           /\ viewMatrix' = translate(resetViewMatrix, defaultTranslation)
           /\ ViewIsComposedAfter
           /\ trackballProjectionMatrix' = "Identity"]_vars

\* ------------------------------------------- what a translation depends on

\* Values the rotation reference initialPosition holds in some run: what
\* the constructor leaves and the surface points of the rotation positions.
RotationReferences ==
    Uninitialized3 \cup {SurfacePoint(pos) : pos \in RotationPositions}

\* What translateCamera(pos) leaves in this state when the rotation
\* reference is initial.
TranslationWith(pos, initial) ==
    translateCameraResult(pos, initial, translating,
                          initialTranslationPosition, quaternion,
                          translationVector, viewport)

\* C27: a translation update does not depend on the rotation gesture: in
\* two states that agree on q, t, z, the translating flag and the
\* translation reference and differ in the rotation reference
\* initialPosition or in the rotating flag, translateCamera(p) leaves the
\* same t and the same translation reference.
C27_TranslationIgnoresRotationGesture ==
    \A pos \in TranslationPositions : \A other \in RotationReferences :
        TranslationWith(pos, other) = TranslationWith(pos, initialPosition)

\* What translateCamera(p1) followed by translateCamera(p2) leaves in this
\* state when the rotation reference is initial.
TwoTranslationsWith(p1, p2, initial) ==
    LET first == TranslationWith(p1, initial)
    IN  translateCameraResult(p2, initial, TRUE,
                              first.initialTranslationPosition, quaternion,
                              first.translationVector, viewport)

\* C28: reset() erases the influence of the gestures before it: after two
\* histories that end with reset() the same calls leave the same q, t, z,
\* flags and view matrix; no reference sample from before the reset
\* reaches a later update.
C28_ResetErasesGestures ==
    last.op = "reset" =>
        \A p1, p2 \in TranslationPositions :
            \A other \in RotationReferences :
                TwoTranslationsWith(p1, p2, other)
                    = TwoTranslationsWith(p1, p2, initialPosition)

\* ----------------------------------------- the translation of one gesture

\* The translation t is the translation t0 the gesture g began with plus
\* (reference - p0, 0) rotated by the inverse of q, p0 the normalized
\* position the gesture began at.
Telescoped(g, q, t, reference) ==
    LET d == VSub(reference, g.p0)
    IN  VSub(t, g.t0)
            = QTransformVector(QInverse(q), <<d[1], d[2], RInt(0)>>)

\* C29: the translation of one gesture telescopes: while q stays fixed,
\* after a begin at p0 and any translation updates the total change of t is
\* the inverse of q applied to (normalize(p) - normalize(p0), 0), p the
\* position of the last update applied, whatever the positions between; an
\* update that is skipped advances neither t nor the reference.
C29_TranslationTelescopes ==
    [][gesture'.live =>
           /\ translating'
           /\ Telescoped(gesture', quaternion', translationVector',
                         initialTranslationPosition')
           /\ Called("translateCamera") /\ last'.branch = "applied"
                  => initialTranslationPosition' = Normalized(last'.arg)
           /\ Called("translateCamera") /\ last'.branch = "skipped"
                  => UNCHANGED <<translationVector,
                                 initialTranslationPosition>>]_vars

\* C29, its case: under a turned q, an applied update has left the
\* reference away from where the gesture began.
C29_Witness ==
    /\ gesture.live
    /\ last.op = "translateCamera"
    /\ last.branch = "applied"
    /\ quaternion # QIdentity
    /\ initialTranslationPosition # gesture.p0

====
